---- MODULE Spec2Model ----
(***************************************************************************)
(* CwaWeather-backend, src/server.js: the route GET /api/weather/:location *)
(* (getWeatherByLocation), its location table, its single outbound call to  *)
(* the CWA open-data API and the normalisation of the reply.               *)
(*                                                                         *)
(* TLA+ strings of this toolset are ASCII.  The non-ASCII literals of the  *)
(* source are written as ASCII stand-ins, one distinct stand-in per        *)
(* distinct literal; each definition names the literal it stands for.      *)
(***************************************************************************)
EXTENDS Integers, Sequences, FiniteSets, TLC

(***************************************************************************)
(* Bounds of the model.                                                    *)
(***************************************************************************)
\* requests that may be in flight at once
NumRequests == 2
\* weatherElement entries of an upstream location
MaxElems == 2
\* time entries of one weather element
MaxTimes == 2

Requests == 1..NumRequests

(***************************************************************************)
(* JavaScript values.                                                      *)
(***************************************************************************)
Undefined == [type |-> "undefined"]
JsNull == [type |-> "null"]
JsString(s) == [type |-> "string", value |-> s]
\* a value found on Object.prototype (a function, or the prototype itself)
JsInherited(k) == [type |-> "inherited", value |-> k]

\* ToBoolean, as `!x` and `x ? a : b` and `a || b` use it
Truthy(v) ==
    CASE v.type = "undefined" -> FALSE
      [] v.type = "null" -> FALSE
      [] v.type = "string" -> v.value # ""
      [] OTHER -> TRUE

(***************************************************************************)
(* LOCATION_MAP, an object literal: its own keys, in insertion order, and  *)
(* the keys every object literal inherits from Object.prototype.           *)
(*   "Kaohsiung City" = '高雄市', "Taipei City" = '臺北市',                *)
(*   "Taichung City" = '臺中市', "Miaoli County" = '苗栗縣'                *)
(***************************************************************************)
LOCATION_MAP ==
    <<[key |-> "kaohsiung", value |-> "Kaohsiung City"],
      [key |-> "taipei", value |-> "Taipei City"],
      [key |-> "taichung", value |-> "Taichung City"],
      [key |-> "miaoli", value |-> "Miaoli County"]>>

\* Object.keys(map): the own keys, in insertion order
ObjectKeys(map) == [i \in DOMAIN map |-> map[i].key]

\* the set of own keys
OwnKeys(map) == {map[i].key : i \in DOMAIN map}

\* property names that map[...] finds on Object.prototype
ObjectPrototypeKeys ==
    {"constructor", "toString", "valueOf", "hasOwnProperty", "__proto__"}

\* LOCATION_MAP[locationCode]: an own property, else an inherited one, else
\* undefined
LocationMapGet(map, locationCode) ==
    IF locationCode \in OwnKeys(map)
    THEN JsString(map[CHOOSE i \in DOMAIN map :
                                 map[i].key = locationCode].value)
    ELSE IF locationCode \in ObjectPrototypeKeys
         THEN JsInherited(locationCode)
         ELSE Undefined

\* `${locationName}` in a template literal
TemplateString(v) ==
    CASE v.type = "string" -> v.value
      [] v.type = "inherited" -> "[inherited " \o v.value \o "]"
      [] OTHER -> v.type

(***************************************************************************)
(* Responses: res.status(s).json(body).                                    *)
(***************************************************************************)
\* "Invalid location code" = "輸入地區代碼無效"
InvalidLocationResponse(map, locationCode) ==
    [status |-> 400,
     body |-> [error |-> "Invalid location code",
               message |-> "Location code '" \o locationCode
                           \o "' is not defined or not supported.",
               supported_locations |-> ObjectKeys(map)]]

\* "Server configuration error" = "伺服器設定錯誤"
MissingKeyResponse ==
    [status |-> 500,
     body |-> [error |-> "Server configuration error",
               message |-> "Set CWA_API_KEY in the .env file"]]

\* the no-data answer sent with the status of a server error
NoDataResponse_AsServerError(locationName) ==
    [status |-> 500,
     body |-> [error |-> "No data",
               message |-> "Cannot get the weather data of "
                           \o TemplateString(locationName)]]

\* "No data" = "查無資料"
NoDataResponse(locationName) ==
    [status |-> 404,
     body |-> [error |-> "No data",
               message |-> "Cannot get the weather data of "
                           \o TemplateString(locationName)]]

\* res.json({success: true, data: weatherData}); the status defaults to 200
SuccessResponse(weatherData) ==
    [status |-> 200, body |-> [success |-> TRUE, data |-> weatherData]]

\* "Cannot get weather data" = "無法取得天氣資料"
FallbackMessage == "Cannot get weather data"

\* error.response.data.message || "..." ; data is neither null nor undefined
UpstreamMessage(data) ==
    IF data.type = "object" /\ Truthy(data.message)
    THEN data.message.value
    ELSE FallbackMessage

\* "CWA API error" = "CWA API 錯誤"
UpstreamErrorResponse(response) ==
    [status |-> response.status,
     body |-> [error |-> "CWA API error",
               message |-> UpstreamMessage(response.data),
               details |-> response.data]]

\* "Server error" = "伺服器錯誤",
\* "Cannot get weather data, try again later" = "無法取得天氣資料，請稍後再試"
GenericErrorResponse ==
    [status |-> 500,
     body |-> [error |-> "Server error",
               message |-> "Cannot get weather data, try again later"]]

\* the error handling middleware: 500 with err.message
ErrorMiddlewareResponse(err) ==
    [status |-> 500,
     body |-> [error |-> "Server error", message |-> err.message]]

\* the TypeError a property read of undefined or null raises
TypeError == [name |-> "TypeError",
              message |-> "Cannot read properties of undefined",
              response |-> Undefined]

(***************************************************************************)
(* Normalisation of the upstream payload (step 5 of the handler).          *)
(*   a weather element: [elementName, time], time a sequence of            *)
(*   [startTime, endTime, parameter]; parameter is Undefined or            *)
(*   [type |-> "object", parameterName |-> <string>].                      *)
(* Sequences are 1-based here: slot i of the model is index i-1 of the     *)
(* source.                                                                 *)
(***************************************************************************)
\* the suffixes of the rain and temperature fields; "degC" = "°C"
PERCENT == "%"
DEG_C == "degC"

\* the outcome of an evaluation that may throw
Returned(v) == [threw |-> FALSE, value |-> v]
Threw(e) == [threw |-> TRUE, error |-> e]

\* a slot count that stops one short (i < timeCount - 1)
TimeCount_OffByOne(weatherElements) ==
    IF Len(weatherElements) = 0
    THEN Threw(TypeError)
    ELSE Returned(IF Len(weatherElements[1].time) = 0
                  THEN 0
                  ELSE Len(weatherElements[1].time) - 1)

\* weatherElements[0].time.length; weatherElements[0] may be undefined
TimeCount(weatherElements) ==
    IF Len(weatherElements) = 0
    THEN Threw(TypeError)
    ELSE Returned(Len(weatherElements[1].time))

\* the forecast object literal of slot i, before the elements are scanned
InitialForecast(weatherElements, i) ==
    [startTime |-> weatherElements[1].time[i].startTime,
     endTime |-> weatherElements[1].time[i].endTime,
     weather |-> "",
     rain |-> "",
     minTemp |-> "",
     maxTemp |-> "",
     comfort |-> "",
     windSpeed |-> ""]

\* a read that tolerates a missing entry (element.time[i]?.parameter)
ParameterAt_Optional(element, i) ==
    IF i > Len(element.time)
    THEN Returned(Undefined)
    ELSE Returned(element.time[i].parameter)

\* element.time[i].parameter; element.time[i] is undefined past the end
ParameterAt(element, i) ==
    IF i > Len(element.time)
    THEN Threw(TypeError)
    ELSE Returned(element.time[i].parameter)

\* value.parameterName; value may be undefined
ParameterName(value) ==
    IF value.type = "undefined"
    THEN Threw(TypeError)
    ELSE Returned(value.parameterName)

\* a fallback that drops the default text of an absent parameter
WithFallback_NoDefault(value, fallback, suffix) ==
    (IF Truthy(value) THEN value.parameterName ELSE "") \o suffix

\* (value ? value.parameterName : fallback) + suffix
WithFallback(value, fallback, suffix) ==
    (IF Truthy(value) THEN value.parameterName ELSE fallback) \o suffix

\* the switch on element.elementName, for one element and one slot
ApplyElement(forecast, elementName, value) ==
    CASE elementName = "Wx" ->
           LET n == ParameterName(value) IN
           IF n.threw THEN n
           ELSE Returned([forecast EXCEPT !.weather = n.value])
      [] elementName = "PoP" ->
           Returned([forecast EXCEPT !.rain = WithFallback(value, "0", PERCENT)])
      [] elementName = "MinT" ->
           Returned([forecast EXCEPT
                       !.minTemp = WithFallback(value, "-", DEG_C)])
      [] elementName = "MaxT" ->
           Returned([forecast EXCEPT
                       !.maxTemp = WithFallback(value, "-", DEG_C)])
      [] elementName = "CI" ->
           LET n == ParameterName(value) IN
           IF n.threw THEN n
           ELSE Returned([forecast EXCEPT !.comfort = n.value])
      [] elementName = "WS" ->
           LET n == ParameterName(value) IN
           IF n.threw THEN n
           ELSE Returned([forecast EXCEPT !.windSpeed = n.value])
      [] OTHER -> Returned(forecast)

\* weatherElements.forEach(...) for slot i, from element k on
RECURSIVE ForEachElement(_, _, _, _)
ForEachElement(weatherElements, k, i, forecast) ==
    IF k > Len(weatherElements)
    THEN Returned(forecast)
    ELSE LET element == weatherElements[k]
             value == ParameterAt(element, i)
         IN  IF value.threw
             THEN value
             ELSE LET next == ApplyElement(forecast, element.elementName,
                                           value.value)
                  IN  IF next.threw
                      THEN next
                      ELSE ForEachElement(weatherElements, k + 1, i,
                                          next.value)

\* for (let i = 0; i < timeCount; i++) { ...; forecasts.push(forecast) }
RECURSIVE ForEachSlot(_, _, _, _)
ForEachSlot(weatherElements, timeCount, i, forecasts) ==
    IF i > timeCount
    THEN Returned(forecasts)
    ELSE LET forecast ==
                 ForEachElement(weatherElements, 1, i,
                                InitialForecast(weatherElements, i))
         IN  IF forecast.threw
             THEN forecast
             ELSE ForEachSlot(weatherElements, timeCount, i + 1,
                              Append(forecasts, forecast.value))

\* step 5: weatherData built from locationData and the dataset description
Normalize(locationData, datasetDescription) ==
    LET weatherElements == locationData.weatherElement
        timeCount == TimeCount(weatherElements)
    IN  IF timeCount.threw
        THEN timeCount
        ELSE LET forecasts ==
                     ForEachSlot(weatherElements, timeCount.value, 1, <<>>)
             IN  IF forecasts.threw
                 THEN forecasts
                 ELSE Returned([city |-> locationData.locationName,
                                updateTime |-> datasetDescription,
                                forecasts |-> forecasts.value])

(***************************************************************************)
(* The handler after the await: what one settled outbound call leads to.   *)
(*   a settled call: [kind |-> "resolved", data |-> ...] or                *)
(*                   [kind |-> "rejected", error |-> ...]                  *)
(*   an outcome: [kind |-> "respond", response |-> ...] or                 *)
(*               [kind |-> "reject", error |-> ...] (the async handler's   *)
(*               promise rejects and nothing was sent)                     *)
(***************************************************************************)
Respond(response) == [kind |-> "respond", response |-> response]
Reject(e) == [kind |-> "reject", error |-> e]

\* the catch block
Catch(error) ==
    IF Truthy(error.response)
    THEN IF error.response.data.type \in {"null", "undefined"}
         THEN Reject(TypeError)
         ELSE Respond(UpstreamErrorResponse(error.response))
    ELSE Respond(GenericErrorResponse)

\* steps 4 and 5 and the final res.json, inside the try block
TryBlock(locationName, data) ==
    IF ~data.hasRecords
    THEN Catch(TypeError)
    ELSE IF Len(data.records.location) = 0
         THEN Respond(NoDataResponse(locationName))
         ELSE LET weatherData ==
                      Normalize(data.records.location[1],
                                data.records.datasetDescription)
              IN  IF weatherData.threw
                  THEN Catch(weatherData.error)
                  ELSE Respond(SuccessResponse(weatherData.value))

\* the handler's continuation for a settled call
Continuation(locationName, settled) ==
    IF settled.kind = "rejected"
    THEN Catch(settled.error)
    ELSE TryBlock(locationName, settled.data)

(***************************************************************************)
(* State.                                                                  *)
(***************************************************************************)
VARIABLES
    locationMap,         \* the object LOCATION_MAP refers to
    apiKey,              \* CWA_API_KEY, read from the environment at start
    forwardsRejections,  \* whether the installed express passes a rejected
                         \* handler promise to the error middleware (5.x
                         \* does, 4.x does not): fixed by the build
    pc,                  \* per request: "idle", "pending" (at the await),
                         \* "settled" (call settled, continuation queued),
                         \* "done" (the handler has finished)
    locationCode,        \* per request: req.params.location
    locationName,        \* per request: the handler's const locationName
    calls,               \* per request: the axios.get calls issued
    settled,             \* per request: how its outbound call settled
    sent                 \* per request: the responses sent, in order

vars == <<locationMap, apiKey, forwardsRejections, pc, locationCode,
          locationName, calls, settled, sent>>

NoCall == [kind |-> "none"]

(***************************************************************************)
(* Inputs.                                                                 *)
(***************************************************************************)
\* path segments: the table's keys, a key in another case, an unknown
\* code, and two names every object inherits
LocationCodes ==
    OwnKeys(LOCATION_MAP) \cup {"Taipei", "tokyo", "toString", "__proto__"}

\* process.env.CWA_API_KEY: unset, set to the empty string, set
ApiKeys == {Undefined, JsString(""), JsString("CWA-KEY")}

\* the element names of the upstream dataset, in the order it lists them,
\* then one the switch does not know
ElementOrder == <<"Wx", "PoP", "MinT", "CI", "MaxT", "WS", "UVI">>

\* the j-th time window of the upstream's time axis: not sorted
WindowStart(j) == ToString((j * 18) % 24) \o ":00"
WindowEnd(j) == WindowStart(j + 1)

\* the j-th time entry of an element: its parameter is absent or present,
\* with a display name that differs from slot to slot
TimeEntriesAt(j) ==
    {[startTime |-> WindowStart(j), endTime |-> WindowEnd(j), parameter |-> p] :
        p \in {Undefined,
               [type |-> "object", parameterName |-> ToString(20 + j)]}}

\* the time series of an element: up to MaxTimes entries
TimeSeries ==
    UNION {{t \in [1..k -> UNION {TimeEntriesAt(j) : j \in 1..k}] :
                \A j \in 1..k : t[j] \in TimeEntriesAt(j)} : k \in 0..MaxTimes}

\* the members of a set of indices, ascending
Ascending(s) ==
    [k \in 1..Cardinality(s) |->
        CHOOSE x \in s : Cardinality({y \in s : y < x}) = k - 1]

\* the sets of element names a payload may carry: up to MaxElems of them
ElementNameSets ==
    {x \in SUBSET DOMAIN ElementOrder : Cardinality(x) <= MaxElems}

\* a weatherElement array: the elements s, each at most once and in the
\* dataset's order, element e with the time series f[e]
WeatherElements(s, f) ==
    [k \in 1..Cardinality(s) |->
        [elementName |-> ElementOrder[Ascending(s)[k]],
         time |-> f[Ascending(s)[k]]]]

LocationEntry(s, f) ==
    [locationName |-> "Taipei City", weatherElement |-> WeatherElements(s, f)]

\* response.data of a successful call, with the given location array
Payload(location) ==
    [hasRecords |-> TRUE,
     records |-> [datasetDescription |-> "36 hour forecast",
                  location |-> location]]

\* a 2xx body without a records member
MalformedPayload == [hasRecords |-> FALSE]

Resolved(data) == [kind |-> "resolved", data |-> data]
Rejected(error) == [kind |-> "rejected", error |-> error]

\* an axios error that carries the upstream's response
AxiosResponseError(status, data) ==
    [name |-> "AxiosError",
     message |-> "Request failed",
     response |-> [type |-> "object", status |-> status, data |-> data]]

\* an axios error without a response (DNS, refused, reset)
AxiosNetworkError ==
    [name |-> "AxiosError", message |-> "Network Error",
     response |-> Undefined]

\* bodies of an upstream error response, as axios parses them
ErrorBodies ==
    {JsNull,
     JsString(""),
     [type |-> "object", message |-> Undefined],
     [type |-> "object", message |-> JsString("Unauthorized")]}

ErrorStatuses == {401, 404, 503}

FailedCalls ==
    {AxiosNetworkError}
    \cup {AxiosResponseError(s, d) : s \in ErrorStatuses, d \in ErrorBodies}

(***************************************************************************)
(* Operations.                                                             *)
(***************************************************************************)
\* !locationName
LocationInvalid(name) == ~Truthy(name)

\* a key check that takes only an unset variable for a missing key
KeyMissing_UndefinedOnly(key) == key.type = "undefined"

\* !CWA_API_KEY
KeyMissing(key) == ~Truthy(key)

\* the outbound axios.get: its query parameters
OutboundCall(key, name) ==
    [url |-> "/v1/rest/datastore/F-C0032-001",
     Authorization |-> key,
     locationName |-> name]

\* a handler that keeps locationName in a variable all requests share
Receive_SharedName(r, code) ==
    /\ pc[r] = "idle"
    /\ LET name == LocationMapGet(locationMap, code) IN
       /\ locationCode' = [locationCode EXCEPT ![r] = code]
       /\ locationName' = [q \in Requests |-> name]
       /\ IF LocationInvalid(name)
          THEN /\ sent' = [sent EXCEPT
                     ![r] = Append(@, InvalidLocationResponse(locationMap,
                                                              code))]
               /\ pc' = [pc EXCEPT ![r] = "done"]
               /\ UNCHANGED calls
          ELSE IF KeyMissing(apiKey)
          THEN /\ sent' = [sent EXCEPT ![r] = Append(@, MissingKeyResponse)]
               /\ pc' = [pc EXCEPT ![r] = "done"]
               /\ UNCHANGED calls
          ELSE /\ calls' = [calls EXCEPT
                     ![r] = Append(@, OutboundCall(apiKey, name))]
               /\ pc' = [pc EXCEPT ![r] = "pending"]
               /\ UNCHANGED sent
    /\ UNCHANGED <<locationMap, apiKey, forwardsRejections, settled>>

\* GET /api/weather/:location arrives: the handler runs up to its first
\* return or to the await
Receive(r, code) ==
    /\ pc[r] = "idle"
    /\ LET name == LocationMapGet(locationMap, code) IN
       /\ locationCode' = [locationCode EXCEPT ![r] = code]
       /\ locationName' = [locationName EXCEPT ![r] = name]
       /\ IF LocationInvalid(name)
          THEN /\ sent' = [sent EXCEPT
                     ![r] = Append(@, InvalidLocationResponse(locationMap,
                                                              code))]
               /\ pc' = [pc EXCEPT ![r] = "done"]
               /\ UNCHANGED calls
          ELSE IF KeyMissing(apiKey)
          THEN /\ sent' = [sent EXCEPT ![r] = Append(@, MissingKeyResponse)]
               /\ pc' = [pc EXCEPT ![r] = "done"]
               /\ UNCHANGED calls
          ELSE /\ calls' = [calls EXCEPT
                     ![r] = Append(@, OutboundCall(apiKey, name))]
               /\ pc' = [pc EXCEPT ![r] = "pending"]
               /\ UNCHANGED sent
    /\ UNCHANGED <<locationMap, apiKey, forwardsRejections, settled>>

\* the outbound call of request r fails, with one of the given errors
CallFails(r, errors) ==
    /\ pc[r] = "pending"
    /\ \E e \in errors : settled' = [settled EXCEPT ![r] = Rejected(e)]
    /\ pc' = [pc EXCEPT ![r] = "settled"]
    /\ UNCHANGED <<locationMap, apiKey, forwardsRejections, locationCode,
                   locationName, calls, sent>>

\* the outbound call of request r succeeds: with a body that has no records,
\* with an empty location array, or with one location that carries one of
\* the given sets of elements, each with one of the given time series
CallSucceeds(r, nameSets, series) ==
    /\ pc[r] = "pending"
    /\ \/ settled' = [settled EXCEPT ![r] = Resolved(MalformedPayload)]
       \/ settled' = [settled EXCEPT ![r] = Resolved(Payload(<<>>))]
       \/ \E s \in nameSets : \E f \in [s -> series] :
            settled' = [settled EXCEPT
                ![r] = Resolved(Payload(<<LocationEntry(s, f)>>))]
    /\ pc' = [pc EXCEPT ![r] = "settled"]
    /\ UNCHANGED <<locationMap, apiKey, forwardsRejections, locationCode,
                   locationName, calls, sent>>

\* a handler that repeats a failed call once before it answers
Resume_Retry(r) ==
    /\ pc[r] = "settled"
    /\ IF settled[r].kind = "rejected" /\ Len(calls[r]) < 2
       THEN /\ calls' = [calls EXCEPT ![r] = Append(@, @[1])]
            /\ pc' = [pc EXCEPT ![r] = "pending"]
            /\ UNCHANGED sent
       ELSE /\ LET outcome == Continuation(locationName[r], settled[r]) IN
               sent' = [sent EXCEPT
                   ![r] = IF outcome.kind = "respond"
                          THEN Append(@, outcome.response)
                          ELSE IF forwardsRejections
                               THEN Append(@, ErrorMiddlewareResponse(
                                                  outcome.error))
                               ELSE @]
            /\ pc' = [pc EXCEPT ![r] = "done"]
            /\ UNCHANGED calls
    /\ UNCHANGED <<locationMap, apiKey, forwardsRejections, locationCode,
                   locationName, settled>>

\* the handler of request r resumes after the await and runs to its end
Resume(r) ==
    /\ pc[r] = "settled"
    /\ LET outcome == Continuation(locationName[r], settled[r]) IN
       sent' = [sent EXCEPT
           ![r] = IF outcome.kind = "respond"
                  THEN Append(@, outcome.response)
                  ELSE IF forwardsRejections
                       THEN Append(@, ErrorMiddlewareResponse(outcome.error))
                       ELSE @]
    /\ pc' = [pc EXCEPT ![r] = "done"]
    /\ UNCHANGED <<locationMap, apiKey, forwardsRejections, locationCode,
                   locationName, calls, settled>>

(***************************************************************************)
(* Specifications.                                                         *)
(***************************************************************************)
InitRequests ==
    /\ locationMap = LOCATION_MAP
    /\ forwardsRejections \in BOOLEAN
    /\ pc = [r \in Requests |-> "idle"]
    /\ locationCode = [r \in Requests |-> ""]
    /\ locationName = [r \in Requests |-> Undefined]
    /\ calls = [r \in Requests |-> <<>>]
    /\ settled = [r \in Requests |-> NoCall]
    /\ sent = [r \in Requests |-> <<>>]

\* the route, one request: any path segment, any configuration of the key,
\* any failure of the call, and the payloads that carry Wx and PoP
Init == InitRequests /\ apiKey \in ApiKeys

Next ==
    \/ \E code \in LocationCodes : Receive(1, code)
    \/ CallFails(1, FailedCalls)
    \/ CallSucceeds(1, {{1, 2}}, TimeSeries)
    \/ Resume(1)

Spec == Init /\ [][Next]_vars

\* normalisation: one request for a supported code, a key configured, every
\* payload within the bounds
InitNorm == InitRequests /\ apiKey = JsString("CWA-KEY")

NextNorm ==
    \/ Receive(1, "taipei")
    \/ CallFails(1, FailedCalls)
    \/ CallSucceeds(1, ElementNameSets, TimeSeries)
    \/ Resume(1)

SpecNorm == InitNorm /\ [][NextNorm]_vars

\* concurrency: every request slot in use, calls settling in any order, over
\* a few codes, failures and payloads
ConcCodes == {"taipei", "tokyo", "toString"}

ConcFailures ==
    {AxiosNetworkError,
     AxiosResponseError(401, [type |-> "object",
                              message |-> JsString("Unauthorized")]),
     AxiosResponseError(503, JsNull)}

ConcSeries == {t \in TimeSeries : Len(t) <= 1}

NextConc ==
    \E r \in Requests :
        \/ \E code \in ConcCodes : Receive(r, code)
        \/ CallFails(r, ConcFailures)
        \/ CallSucceeds(r, {{2}}, ConcSeries)
        \/ Resume(r)

SpecConc == Init /\ [][NextConc]_vars

(***************************************************************************)
(* Properties.                                                             *)
(***************************************************************************)
\* the handler of request r has finished
Finished(r) == pc[r] = "done"

\* request r was answered exactly once, with status s
AnsweredOnce(r, s) == Len(sent[r]) = 1 /\ sent[r][1].status = s

\* the members of the body of the only response to request r
BodyFields(r) == DOMAIN sent[r][1].body

\* the outbound call of request r succeeded with a records member
HasRecords(r) == settled[r].kind = "resolved" /\ settled[r].data.hasRecords

\* the location array the upstream returned to request r
LocationArray(r) == settled[r].data.records.location

\* the weather elements of the first location returned to request r
ElementsOf(r) == LocationArray(r)[1].weatherElement

\* the forecasts of the 200 response to request r
ForecastsOf(r) == sent[r][1].body.data.forecasts

\* request r got a payload with a location that has at least one element
HasElements(r) ==
    /\ HasRecords(r)
    /\ Len(LocationArray(r)) > 0
    /\ Len(ElementsOf(r)) > 0

\* the number of time entries of element 0 of the payload of request r
SlotCount(r) == Len(ElementsOf(r)[1].time)

(* C1: a code that is a key of the location table resolves to a non-empty  *)
(* name and is not rejected as invalid; any other path segment is answered *)
(* 400, with no outbound call, and supported_locations lists exactly the   *)
(* table's keys.                                                           *)
C1_LocationResolution ==
    \A r \in Requests :
        pc[r] # "idle" =>
            IF locationCode[r] \in OwnKeys(LOCATION_MAP)
            THEN /\ locationName[r].type = "string"
                 /\ locationName[r].value # ""
                 /\ \A i \in DOMAIN sent[r] : sent[r][i].status # 400
            ELSE /\ Finished(r)
                 /\ AnsweredOnce(r, 400)
                 /\ calls[r] = <<>>
                 /\ LET keys == sent[r][1].body.supported_locations IN
                    /\ {keys[i] : i \in DOMAIN keys} = OwnKeys(LOCATION_MAP)
                    /\ Len(keys) = Cardinality(OwnKeys(LOCATION_MAP))

(* C2: with no credential configured, a request for a supported code ends  *)
(* with one 500 response {error, message} and no outbound call.            *)
C2_NoKeyNoCall ==
    \A r \in Requests :
        (/\ pc[r] # "idle"
         /\ locationCode[r] \in OwnKeys(LOCATION_MAP)
         /\ ~Truthy(apiKey))
        => /\ Finished(r)
           /\ AnsweredOnce(r, 500)
           /\ BodyFields(r) = {"error", "message"}
           /\ calls[r] = <<>>

C2_Witness ==
    \E r \in Requests :
        /\ Finished(r)
        /\ locationCode[r] \in OwnKeys(LOCATION_MAP)
        /\ apiKey = JsString("")
        /\ AnsweredOnce(r, 500)
        /\ calls[r] = <<>>

(* C3: a request that does not end in a 200 response was answered exactly  *)
(* once, with a body that has error and message and no data.               *)
C3_ExactlyOneErrorResponse ==
    \A r \in Requests :
        (Finished(r) /\ ~AnsweredOnce(r, 200))
        => /\ Len(sent[r]) = 1
           /\ {"error", "message"} \subseteq BodyFields(r)
           /\ "data" \notin BodyFields(r)

(* C4: a 200 response has one forecast per time entry of element 0 of the  *)
(* payload, and forecast i carries the start and end time of element 0's   *)
(* i-th entry.                                                             *)
C4_ForecastsFollowElementZero ==
    \A r \in Requests :
        (Finished(r) /\ AnsweredOnce(r, 200))
        => /\ HasElements(r)
           /\ Len(ForecastsOf(r)) = SlotCount(r)
           /\ \A i \in 1..SlotCount(r) :
                /\ ForecastsOf(r)[i].startTime
                     = ElementsOf(r)[1].time[i].startTime
                /\ ForecastsOf(r)[i].endTime
                     = ElementsOf(r)[1].time[i].endTime

C4_Witness ==
    \E r \in Requests :
        /\ Finished(r)
        /\ AnsweredOnce(r, 200)
        /\ SlotCount(r) >= 2
        /\ Len(ElementsOf(r)) >= 2
        /\ ForecastsOf(r)[1].startTime # ForecastsOf(r)[2].startTime

\* the forecast field that the switch fills for an element name
FieldOf(forecast, elementName) ==
    CASE elementName = "Wx" -> forecast.weather
      [] elementName = "PoP" -> forecast.rain
      [] elementName = "MinT" -> forecast.minTemp
      [] elementName = "MaxT" -> forecast.maxTemp
      [] elementName = "CI" -> forecast.comfort
      [] elementName = "WS" -> forecast.windSpeed

KnownElementNames == {"Wx", "PoP", "MinT", "MaxT", "CI", "WS"}

\* the element names the payload of request r carries
NamesOf(r) == {ElementsOf(r)[k].elementName : k \in DOMAIN ElementsOf(r)}

\* slot i of element k of the payload of request r has a parameter
HasParameter(r, k, i) == ElementsOf(r)[k].time[i].parameter.type = "object"

(* C5: in a 200 response, rain of slot i is the PoP entry's parameterName  *)
(* followed by "%", or "0%" when the entry has no parameter; minTemp and   *)
(* maxTemp are the MinT and MaxT entry's parameterName followed by "degC", *)
(* or "-degC" when the entry has no parameter.  A payload whose elements   *)
(* all reach element 0's length and whose Wx, CI and WS entries all have a *)
(* parameter is answered 200 whatever PoP, MinT and MaxT parameters are    *)
(* absent.                                                                 *)
C5_FallbackValues ==
    \A r \in Requests :
        /\ (Finished(r) /\ AnsweredOnce(r, 200))
           => \A k \in DOMAIN ElementsOf(r) : \A i \in 1..SlotCount(r) :
                LET name == ElementsOf(r)[k].elementName
                    entry == ElementsOf(r)[k].time[i]
                    field == FieldOf(ForecastsOf(r)[i], name)
                IN  /\ name = "PoP" =>
                         field = IF HasParameter(r, k, i)
                                 THEN entry.parameter.parameterName \o "%"
                                 ELSE "0%"
                    /\ name \in {"MinT", "MaxT"} =>
                         field = IF HasParameter(r, k, i)
                                 THEN entry.parameter.parameterName \o "degC"
                                 ELSE "-degC"
        /\ (/\ Finished(r)
            /\ HasElements(r)
            /\ \A k \in DOMAIN ElementsOf(r) :
                 /\ Len(ElementsOf(r)[k].time) >= SlotCount(r)
                 /\ ElementsOf(r)[k].elementName \in {"Wx", "CI", "WS"}
                    => \A i \in 1..SlotCount(r) : HasParameter(r, k, i))
           => AnsweredOnce(r, 200)

C5_Witness ==
    \E r \in Requests :
        /\ Finished(r)
        /\ AnsweredOnce(r, 200)
        /\ SlotCount(r) >= 2
        /\ NamesOf(r) = {"PoP", "MinT"}
        /\ ~HasParameter(r, 1, 1)
        /\ HasParameter(r, 1, 2)
        /\ ~HasParameter(r, 2, 2)
        /\ ForecastsOf(r)[1].rain = "0%"
        /\ ForecastsOf(r)[2].minTemp = "-degC"

(* C6: a successful call whose location array is empty is answered 404     *)
(* with exactly {error, message}; a failed call is never answered that     *)
(* way: its response is a 500 or carries details.                          *)
C6_EmptyLocationIs404 ==
    \A r \in Requests :
        /\ (Finished(r) /\ HasRecords(r) /\ Len(LocationArray(r)) = 0)
           => /\ AnsweredOnce(r, 404)
              /\ BodyFields(r) = {"error", "message"}
        /\ (Finished(r) /\ settled[r].kind = "rejected")
           => \A i \in DOMAIN sent[r] :
                \/ sent[r][i].status = 500
                \/ "details" \in DOMAIN sent[r][i].body

C6_Witness ==
    \E r \in Requests :
        /\ Finished(r)
        /\ HasRecords(r)
        /\ Len(LocationArray(r)) = 0
        /\ AnsweredOnce(r, 404)

(* C7: a call that fails with a response of status s is answered with      *)
(* status s and {error, message, details}, details being the upstream      *)
(* body; a call that fails without a response is answered 500 with the     *)
(* generic {error, message}.                                               *)
C7_FailureMapping ==
    \A r \in Requests :
        (Finished(r) /\ settled[r].kind = "rejected")
        => LET response == settled[r].error.response IN
           IF response.type = "object"
           THEN /\ AnsweredOnce(r, response.status)
                /\ BodyFields(r) = {"error", "message", "details"}
                /\ sent[r][1].body.details = response.data
           ELSE /\ AnsweredOnce(r, 500)
                /\ sent[r][1].body
                     = [error |-> "Server error",
                        message |->
                            "Cannot get weather data, try again later"]

\* some element after element 0 of the payload of request r is shorter
SomeElementShorter(r) ==
    \E k \in 2..Len(ElementsOf(r)) : Len(ElementsOf(r)[k].time) < SlotCount(r)

(* C8, as stated: a payload in which an element after element 0 has fewer  *)
(* time entries than element 0 is answered 200 with one forecast per entry *)
(* of element 0, the fields of the missing entries left empty; and a field *)
(* whose element name is not in the payload is the empty string.           *)
C8_MisalignedDegradesSilently ==
    \A r \in Requests :
        /\ (Finished(r) /\ HasElements(r) /\ SomeElementShorter(r))
           => /\ AnsweredOnce(r, 200)
              /\ Len(ForecastsOf(r)) = SlotCount(r)
              /\ \A k \in 2..Len(ElementsOf(r)) :
                   \A i \in (Len(ElementsOf(r)[k].time) + 1)..SlotCount(r) :
                     ElementsOf(r)[k].elementName \in KnownElementNames
                     => FieldOf(ForecastsOf(r)[i],
                                ElementsOf(r)[k].elementName) = ""
        /\ (Finished(r) /\ AnsweredOnce(r, 200))
           => \A i \in 1..SlotCount(r) :
                \A name \in KnownElementNames \ NamesOf(r) :
                    FieldOf(ForecastsOf(r)[i], name) = ""

(* C8, amended: a payload in which an element after element 0 has fewer    *)
(* time entries than element 0 is answered 500 with the generic            *)
(* {error, message} and no forecasts; in a 200 response a field whose      *)
(* element name is not in the payload is the empty string.                 *)
C8_MisalignedFails ==
    \A r \in Requests :
        /\ (Finished(r) /\ HasElements(r) /\ SomeElementShorter(r))
           => /\ AnsweredOnce(r, 500)
              /\ BodyFields(r) = {"error", "message"}
        /\ (Finished(r) /\ AnsweredOnce(r, 200))
           => \A i \in 1..SlotCount(r) :
                \A name \in KnownElementNames \ NamesOf(r) :
                    FieldOf(ForecastsOf(r)[i], name) = ""

C8_Witness ==
    \E r \in Requests :
        /\ Finished(r)
        /\ HasElements(r)
        /\ SlotCount(r) = 2
        /\ Len(ElementsOf(r)) = 2
        /\ ElementsOf(r)[2].elementName = "PoP"
        /\ Len(ElementsOf(r)[2].time) = 1
        /\ AnsweredOnce(r, 500)

\* the canonical name of a key of the location table
NameOf(code) == LocationMapGet(LOCATION_MAP, code)

(* C9: a request issues at most one outbound call, and exactly one when    *)
(* its code is supported and a key is configured: a GET carrying the key   *)
(* and the resolved name; nothing is sent for it while the call is         *)
(* pending, and a request that issued a call is answered only once the     *)
(* call has settled.                                                       *)
C9_OneCallThenResponse ==
    \A r \in Requests :
        /\ Len(calls[r]) <= 1
        /\ (/\ pc[r] # "idle"
            /\ locationCode[r] \in OwnKeys(LOCATION_MAP)
            /\ Truthy(apiKey))
           => calls[r] = <<OutboundCall(apiKey, NameOf(locationCode[r]))>>
        /\ pc[r] \in {"pending", "settled"} => sent[r] = <<>>
        /\ (calls[r] # <<>> /\ sent[r] # <<>>)
           => /\ settled[r] # NoCall
              /\ Finished(r)
        /\ Len(sent[r]) <= 1

C9_Witness ==
    \E r, q \in Requests :
        /\ r # q
        /\ Finished(r)
        /\ settled[r].kind = "rejected"
        /\ Len(calls[r]) = 1
        /\ Len(sent[r]) = 1
        /\ pc[q] = "pending"
        /\ Len(calls[q]) = 1

\* the part of the state that belongs to request r
StateOf(r) ==
    <<pc[r], locationCode[r], locationName[r], calls[r], settled[r], sent[r]>>

====
